---- MODULE Spec2Model ----
(***************************************************************************)
(* Model of src/main.py: the Streamlit authoring tool "AI Romanopisec".    *)
(*                                                                         *)
(* Every user interaction re-runs the whole script.  One action of the     *)
(* model is one such run: the widget that was changed or the button that   *)
(* was clicked, the load of the selected project from disk, the handler of *)
(* the clicked button (when the run renders that button), its save and the *)
(* st.stop() of safe_refresh.  Indices are 0-based as in the source;       *)
(* sequences are 1-based, so chapter i of the source is chapters[i + 1].   *)
(***************************************************************************)
EXTENDS Integers, Sequences, FiniteSets, TLC

VARIABLES
    disk,             \* PROJECTS_DIR: project name -> stored JSON document
    selected_project, \* value of the sidebar selectbox "Vyber projekt"
    project,          \* the script's global `project` as the last run left it
    new_chapter,      \* st.session_state["new_chapter"]: <<>> is None
    page,             \* the buttons the last run rendered (what can be clicked)
    last,             \* what the last run did: command, index, outcome, prompt
    hist,             \* history: per stored chapter its origin and regenerations
    previewOrigin,    \* history: the project selected when the preview was made
    calls,            \* history: number of provider calls made so far
    client            \* a single text-generation call, for the client claims

vars == <<disk, selected_project, project, new_chapter, page, last, hist,
          previewOrigin, calls, client>>

-----------------------------------------------------------------------------
(* Bounds of the model *)

MaxChapters == 2
MaxChars == 1
MaxCalls == 2

ProjectNames == {"A", "B"}
Texts == {"t1", "t2"}
Instructions == {"i2"}
CharNames == {"Anna"}
CharDescs == {"protagonist"}
Times == {"now"}

NEW_PROJECT == "-- novy --"

-----------------------------------------------------------------------------
(* Model configurations (models.json) and the provider's possible answers *)

MODELS ==
    << [label |-> "gpt",    provider |-> "openai", api_key_env |-> "OPENAI_API_KEY"],
       [label |-> "local",  provider |-> "ollama", api_key_env |-> ""],
       [label |-> "other",  provider |-> "other",  api_key_env |-> ""] >>

SelectedModel(selected_label) ==
    MODELS[CHOOSE k \in 1..Len(MODELS) : MODELS[k].label = selected_label]

SecretNames == {"OPENAI_API_KEY"}

\* transport: the request raises ConnectionError/Timeout;
\* http_status: raise_for_status raises HTTPError;
\* not_json: r.json() raises requests' JSONDecodeError (a RequestException);
\* incomplete: the body is JSON but lacks the expected keys (KeyError).
FailureKinds == {"transport", "http_status", "not_json", "incomplete"}

Responses ==
    [kind : {"ok"}, text : Texts] \cup [kind : FailureKinds, text : {""}]

Envs == [secrets : SUBSET SecretNames, response : Responses]

\* The model selections and provider answers tried in the chapter workflow,
\* one for each way a generation can end: text, failure text, exception.
GenInputs ==
    { <<"gpt",   [secrets |-> {"OPENAI_API_KEY"}, response |-> [kind |-> "ok", text |-> "t1"]]>>,
      <<"gpt",   [secrets |-> {}, response |-> [kind |-> "ok", text |-> "t1"]]>>,
      <<"local", [secrets |-> {}, response |-> [kind |-> "incomplete", text |-> ""]]>> }

ERR_KEY == "CHYBA: API klic neni v secrets."
ERR_API == "CHYBA: Nelze se pripojit k API"
ERR_OLLAMA == "CHYBA: Nelze se pripojit k Ollama endpointu"
FailureTexts == {ERR_KEY, ERR_API, ERR_OLLAMA}

Returned(value, sent) == [raised |-> FALSE, value |-> value, sent |-> sent]
Raised(exc, sent) == [raised |-> TRUE, value |-> exc, sent |-> sent]

\* requests.post + raise_for_status + r.json()[...] inside
\* try / except requests.exceptions.RequestException
PostAndParse(response, errText) ==
    CASE response.kind = "ok" -> Returned(response.text, TRUE)
      [] response.kind \in {"transport", "http_status", "not_json"} ->
            Returned(errText, TRUE)
      [] response.kind = "incomplete" -> Raised("KeyError", TRUE)

call_openai_nocheck(prompt, cfg, env) ==
    PostAndParse(env.response, ERR_API)

call_openai(prompt, cfg, env) ==
    IF cfg.api_key_env \notin env.secrets
    THEN Returned(ERR_KEY, FALSE)
    ELSE PostAndParse(env.response, ERR_API)

call_ollama(prompt, cfg, env) ==
    PostAndParse(env.response, ERR_OLLAMA)

generate_chapter(prompt, model_cfg, env) ==
    IF model_cfg.provider = "openai" THEN call_openai(prompt, model_cfg, env)
    ELSE IF model_cfg.provider = "ollama" THEN call_ollama(prompt, model_cfg, env)
    ELSE Raised("ValueError", FALSE)

-----------------------------------------------------------------------------
(* Stored documents and in-memory projects *)

\* A stored chapter: "versions" may be missing (hasVersions = FALSE).
NoDoc == [exists |-> FALSE, created |-> "", plot |-> "",
          characters |-> <<>>, chapters |-> <<>>]

EmptyDoc(t) == [exists |-> TRUE, created |-> t, plot |-> "",
                characters |-> <<>>, chapters |-> <<>>]

\* In memory a chapter's "versions" is a reference to a list object: vref is
\* an index into heap, 0 when the dict has no "versions" key.
Undefined == [defined |-> FALSE, created |-> "", plot |-> "",
              characters |-> <<>>, chapters |-> <<>>, heap |-> <<>>]

\* json.load: every list of the document becomes a list object of its own.
json_load(doc) ==
    [defined |-> doc.exists, created |-> doc.created, plot |-> doc.plot,
     characters |-> doc.characters,
     chapters |-> [k \in 1..Len(doc.chapters) |->
                     [instruction |-> doc.chapters[k].instruction,
                      text |-> doc.chapters[k].text,
                      vref |-> IF doc.chapters[k].hasVersions THEN k ELSE 0]],
     heap |-> [k \in 1..Len(doc.chapters) |-> doc.chapters[k].versions]]

\* json.dump: every reference is written out by value.
json_dump(data) ==
    [exists |-> TRUE, created |-> data.created, plot |-> data.plot,
     characters |-> data.characters,
     chapters |-> [k \in 1..Len(data.chapters) |->
                     [instruction |-> data.chapters[k].instruction,
                      text |-> data.chapters[k].text,
                      hasVersions |-> data.chapters[k].vref # 0,
                      versions |-> IF data.chapters[k].vref # 0
                                   THEN data.heap[data.chapters[k].vref]
                                   ELSE <<>>]]]

\* number of chapters stored in all projects together
TotalChapters == Len(disk["A"].chapters) + Len(disk["B"].chapters)

list_projects == {n \in ProjectNames : disk[n].exists}

load_project_cached(project_name) ==
    IF project.defined /\ selected_project = project_name
    THEN project
    ELSE json_load(disk[project_name])

load_project(project_name) ==
    json_load(disk[project_name])

save_project(project_name, data) ==
    [disk EXCEPT ![project_name] = json_dump(data)]

\* chapter.get("versions", [chapter["text"]]) of a stored chapter
Versions(ch) == IF ch.hasVersions THEN ch.versions ELSE <<ch.text>>

\* the same of an in-memory chapter
MemVersions(p, k) ==
    IF p.chapters[k].vref # 0 THEN p.heap[p.chapters[k].vref]
    ELSE <<p.chapters[k].text>>

-----------------------------------------------------------------------------
(* Prompt building *)

\* The prompt as its parts, in the order the template places them.
build_prompt(proj, chapter_instruction) ==
    [plot |-> proj.plot,
     characters |-> proj.characters,
     previous_chapters |-> [k \in 1..Len(proj.chapters) |->
                              <<k, proj.chapters[k].text>>],
     chapter_instruction |-> chapter_instruction]

-----------------------------------------------------------------------------
(* List helpers *)

RemoveAt(s, k) == [j \in 1..(Len(s) - 1) |-> IF j < k THEN s[j] ELSE s[j + 1]]

list_pop_last(s, i) ==
    IF Len(s) = 0 THEN s ELSE RemoveAt(s, Len(s))

\* list.pop(i): a negative index counts from the end; outside
\* -len..len-1 Python raises IndexError and the list is unchanged.
list_pop(s, i) ==
    IF i >= 0 /\ i < Len(s) THEN RemoveAt(s, i + 1)
    ELSE IF i < 0 /\ -i <= Len(s) THEN RemoveAt(s, Len(s) + i + 1)
    ELSE s

-----------------------------------------------------------------------------
(* Chapter workflow on the in-memory project *)

\* the dict stored in st.session_state["new_chapter"] by the generate handler
NewChapter(chapter_instruction, chapter_text) ==
    [instruction |-> chapter_instruction, text |-> chapter_text,
     versions |-> <<chapter_text>>]

RegenerateOverwrite(proj, chapter_index, new_text) ==
    LET k == chapter_index + 1
        chapter == proj.chapters[k]
        fresh == chapter.vref = 0
        ref == IF fresh THEN Len(proj.heap) + 1 ELSE chapter.vref
        heap1 == IF fresh THEN Append(proj.heap, <<chapter.text>>) ELSE proj.heap
    IN  [proj EXCEPT
            !.heap = [heap1 EXCEPT ![ref] = <<new_text>>],
            !.chapters[k] = [instruction |-> chapter.instruction,
                             text |-> new_text, vref |-> ref]]

\* regenerate_chapter after generate_chapter has returned new_text:
\* the lines that mutate the chapter
RegenerateApply(proj, chapter_index, new_text) ==
    LET k == chapter_index + 1
        chapter == proj.chapters[k]
        fresh == chapter.vref = 0
        ref == IF fresh THEN Len(proj.heap) + 1 ELSE chapter.vref
        heap1 == IF fresh THEN Append(proj.heap, <<chapter.text>>) ELSE proj.heap
    IN  [proj EXCEPT
            !.heap = [heap1 EXCEPT ![ref] = Append(@, new_text)],
            !.chapters[k] = [instruction |-> chapter.instruction,
                             text |-> new_text, vref |-> ref]]

RegeneratePrompt(proj, chapter_index) ==
    build_prompt(proj, proj.chapters[chapter_index + 1].instruction)

\* the project after regenerate_chapter; unchanged when the generation raises
regenerate_chapter(proj, chapter_index, model_cfg, env) ==
    LET g == generate_chapter(RegeneratePrompt(proj, chapter_index), model_cfg, env)
    IN  IF g.raised THEN proj ELSE RegenerateApply(proj, chapter_index, g.value)

\* "Pridat verzi jako samostatnou": the new dict takes the versions list of
\* the chapter itself when it has one, a new list [text] otherwise
DuplicateChapter(proj, i) ==
    LET chapter == proj.chapters[i + 1]
        fresh == chapter.vref = 0
    IN  [proj EXCEPT
            !.heap = IF fresh THEN Append(@, <<chapter.text>>) ELSE @,
            !.chapters = Append(@, [instruction |-> chapter.instruction,
                                    text |-> chapter.text,
                                    vref |-> IF fresh THEN Len(proj.heap) + 1
                                             ELSE chapter.vref])]

CommitAtFront(proj, new_ch) ==
    [proj EXCEPT
        !.heap = Append(@, new_ch.versions),
        !.chapters = <<[instruction |-> new_ch.instruction, text |-> new_ch.text,
                        vref |-> Len(proj.heap) + 1]>> \o @]

\* project["chapters"].append(new_ch)
CommitChapter(proj, new_ch) ==
    [proj EXCEPT
        !.heap = Append(@, new_ch.versions),
        !.chapters = Append(@, [instruction |-> new_ch.instruction,
                                text |-> new_ch.text,
                                vref |-> Len(proj.heap) + 1])]

-----------------------------------------------------------------------------
(* What a run renders.  The script renders its buttons in a fixed order and *)
(* st.stop() (or an exception) ends the run at the handler that acted; only *)
(* the buttons rendered up to there stay on the page.                       *)

\* the order in which the script reaches its buttons, and its end
Pos(w) ==
    CASE w = "create" -> 1 [] w = "delchar" -> 2 [] w = "addchar" -> 3
      [] w = "del" -> 4 [] w = "regen" -> 5 [] w = "copy" -> 6
      [] w = "gen" -> 7 [] w = "commit" -> 8 [] w = "end" -> 9

\* the chapter buttons of kind w rendered by a run that stopped at `stop`, index i
ChapterButtons(w, stop, i, n) ==
    IF Pos(stop) < Pos("del") THEN 0
    ELSE IF Pos(stop) > Pos("copy") THEN n
    ELSE IF Pos(w) <= Pos(stop) THEN i + 1 ELSE i

RenderedPage(stop, i, sel, proj, preview) ==
    LET loaded == sel # NEW_PROJECT
    IN  [create  |-> ~loaded,
         delchar |-> IF ~loaded \/ Pos(stop) < Pos("delchar") THEN 0
                     ELSE IF stop = "delchar" THEN i + 1
                     ELSE Len(proj.characters),
         addchar |-> loaded /\ Pos(stop) >= Pos("addchar"),
         del     |-> IF loaded THEN ChapterButtons("del", stop, i, Len(proj.chapters)) ELSE 0,
         regen   |-> IF loaded THEN ChapterButtons("regen", stop, i, Len(proj.chapters)) ELSE 0,
         copy    |-> IF loaded THEN ChapterButtons("copy", stop, i, Len(proj.chapters)) ELSE 0,
         gen     |-> Pos(stop) >= Pos("gen"),
         commit  |-> Pos(stop) >= Pos("commit") /\ preview # <<>>]

\* line 152-159: `project` is bound only when a stored project is selected
LoadSelected(sel) == IF sel = NEW_PROJECT THEN Undefined ELSE load_project(sel)

NoPrompt == <<>>

Did(cmd, index, result, prompt) ==
    [cmd |-> cmd, index |-> index, result |-> result, prompt |-> prompt]

\* a run in which no handler acts: the script runs to its end
FullRun(cmd, index, result, sel) ==
    /\ project' = LoadSelected(sel)
    /\ page' = RenderedPage("end", 0, sel, LoadSelected(sel), new_chapter)
    /\ last' = Did(cmd, index, result, NoPrompt)
    /\ UNCHANGED <<disk, new_chapter, hist, previewOrigin, calls, client>>

-----------------------------------------------------------------------------
(* Initial state: the page after the first run of the script, with the      *)
(* selectbox on its first option.  The project directory is empty, or holds *)
(* a project written by an earlier version of the tool, whose chapter has   *)
(* no "versions" field (the case lines 124-125, 241 and 271 provide for).   *)

LegacyChapter == [instruction |-> "i1", text |-> "t0",
                  hasVersions |-> FALSE, versions |-> <<>>]

LegacyDoc == [exists |-> TRUE, created |-> "now", plot |-> "",
              characters |-> <<>>, chapters |-> <<LegacyChapter>>]

IdleClient == [phase |-> "idle", cfg |-> MODELS[1],
               env |-> [secrets |-> {}, response |-> [kind |-> "transport", text |-> ""]],
               prompt |-> build_prompt(Undefined, "i1"),
               ret |-> Returned("", FALSE)]

InitSession ==
    /\ selected_project = NEW_PROJECT
    /\ project = Undefined
    /\ new_chapter = <<>>
    /\ page = RenderedPage("end", 0, NEW_PROJECT, Undefined, <<>>)
    /\ last = Did("start", -1, "ok", NoPrompt)
    /\ previewOrigin = ""
    /\ calls = 0

Init ==
    /\ \/ /\ disk = [n \in ProjectNames |-> NoDoc]
          /\ hist = [n \in ProjectNames |-> <<>>]
       \/ /\ disk = [n \in ProjectNames |-> IF n = "A" THEN LegacyDoc ELSE NoDoc]
          /\ hist = [n \in ProjectNames |->
                       IF n = "A" THEN <<[origin |-> "legacy", regens |-> 0]>>
                       ELSE <<>>]
    /\ InitSession
    /\ client = IdleClient

-----------------------------------------------------------------------------
(* The runs *)

\* a change of the project selectbox (or of any widget that is no button)
SelectProject(s) ==
    /\ s \in {NEW_PROJECT} \cup list_projects
    /\ selected_project' = s
    /\ FullRun("select", -1, "ok", s)

\* "Vytvorit projekt" (lines 152-157)
ClickCreate(new_name, t) ==
    /\ page.create
    /\ UNCHANGED <<selected_project, new_chapter, previewOrigin, calls, client>>
    /\ IF new_name # ""
       THEN /\ disk' = save_project(new_name, json_load(EmptyDoc(t)))
            /\ hist' = [hist EXCEPT ![new_name] = <<>>]
            /\ project' = Undefined
            /\ page' = RenderedPage("create", 0, selected_project, Undefined, new_chapter)
            /\ last' = Did("create", -1, "ok", NoPrompt)
       ELSE /\ project' = Undefined
            /\ page' = RenderedPage("end", 0, selected_project, Undefined, new_chapter)
            /\ last' = Did("create", -1, "noop", NoPrompt)
            /\ UNCHANGED <<disk, hist>>

\* the button with key del_char_j (lines 218-226)
ClickRemoveCharacter(j) ==
    /\ j >= 0 /\ j < page.delchar
    /\ LET proj == load_project(selected_project)
       IN  IF j < Len(proj.characters)
           THEN LET proj2 == [proj EXCEPT !.characters = list_pop(@, j)]
                IN  /\ disk' = save_project(selected_project, proj2)
                    /\ project' = proj2
                    /\ page' = RenderedPage("delchar", j, selected_project, proj, new_chapter)
                    /\ last' = Did("remove_character", j, "ok", NoPrompt)
                    /\ UNCHANGED <<new_chapter, hist, previewOrigin, calls, client>>
           ELSE FullRun("remove_character", j, "ignored", selected_project)
    /\ UNCHANGED selected_project

\* "Pridat postavu" (lines 229-232)
ClickAddCharacter(name, desc) ==
    /\ page.addchar
    /\ LET proj == load_project(selected_project)
           proj2 == [proj EXCEPT !.characters =
                        Append(@, [name |-> name, description |-> desc])]
       IN  /\ Len(proj.characters) < MaxChars
           /\ disk' = save_project(selected_project, proj2)
           /\ project' = proj2
           /\ page' = RenderedPage("addchar", 0, selected_project, proj, new_chapter)
    /\ last' = Did("add_character", -1, "ok", NoPrompt)
    /\ UNCHANGED <<selected_project, new_chapter, hist, previewOrigin, calls, client>>

\* the button with key del_i (lines 257-260)
ClickDelete(i) ==
    /\ i >= 0 /\ i < page.del
    /\ LET proj == load_project(selected_project)
       IN  IF i < Len(proj.chapters)
           THEN LET proj2 == [proj EXCEPT !.chapters = list_pop(@, i)]
                IN  /\ disk' = save_project(selected_project, proj2)
                    /\ project' = proj2
                    /\ hist' = [hist EXCEPT ![selected_project] = RemoveAt(@, i + 1)]
                    /\ page' = RenderedPage("del", i, selected_project, proj, new_chapter)
                    /\ last' = Did("delete", i, "ok", NoPrompt)
                    /\ UNCHANGED <<new_chapter, previewOrigin, calls, client>>
           ELSE FullRun("delete", i, "ignored", selected_project)
    /\ UNCHANGED selected_project

\* the button with key regen_i (lines 262-265)
ClickRegenerate(i, selected_label, env) ==
    /\ i >= 0 /\ i < page.regen
    /\ calls < MaxCalls
    /\ LET proj == load_project(selected_project)
       IN  IF i < Len(proj.chapters)
           THEN LET cfg == SelectedModel(selected_label)
                    prompt == RegeneratePrompt(proj, i)
                    g == generate_chapter(prompt, cfg, env)
                    proj2 == regenerate_chapter(proj, i, cfg, env)
                IN  /\ project' = proj2
                    /\ page' = RenderedPage("regen", i, selected_project, proj, new_chapter)
                    /\ calls' = calls + 1
                    /\ IF g.raised
                       THEN /\ last' = Did("regenerate", i, "exception", <<prompt>>)
                            /\ UNCHANGED <<disk, hist>>
                       ELSE /\ disk' = save_project(selected_project, proj2)
                            /\ hist' = [hist EXCEPT ![selected_project][i + 1].regens = @ + 1]
                            /\ last' = Did("regenerate", i, "ok", <<prompt>>)
                    /\ UNCHANGED <<new_chapter, previewOrigin, client>>
           ELSE FullRun("regenerate", i, "ignored", selected_project)
    /\ UNCHANGED selected_project

\* the button with key copy_i (lines 267-274)
ClickDuplicate(i) ==
    /\ i >= 0 /\ i < page.copy
    /\ LET proj == load_project(selected_project)
       IN  IF i < Len(proj.chapters)
           THEN LET proj2 == DuplicateChapter(proj, i)
                IN  /\ TotalChapters < MaxChapters
                    /\ disk' = save_project(selected_project, proj2)
                    /\ project' = proj2
                    /\ hist' = [hist EXCEPT ![selected_project] =
                                  Append(@, [origin |-> "duplicate", regens |-> 0])]
                    /\ page' = RenderedPage("copy", i, selected_project, proj, new_chapter)
                    /\ last' = Did("duplicate", i, "ok", NoPrompt)
                    /\ UNCHANGED <<new_chapter, previewOrigin, calls, client>>
           ELSE FullRun("duplicate", i, "ignored", selected_project)
    /\ UNCHANGED selected_project

\* "Vygenerovat kapitolu" (lines 291-299); the block is at the top level of
\* the script, outside the branch that binds `project` and `selected_model`
ClickGenerate(chapter_instruction, selected_label, env) ==
    /\ page.gen
    /\ calls < MaxCalls
    /\ UNCHANGED <<selected_project, disk, hist, client>>
    /\ IF selected_project = NEW_PROJECT
       THEN /\ project' = Undefined
            /\ page' = RenderedPage("gen", 0, selected_project, Undefined, new_chapter)
            /\ last' = Did("generate", -1, "NameError", NoPrompt)
            /\ UNCHANGED <<new_chapter, previewOrigin, calls>>
       ELSE LET proj == load_project(selected_project)
                cfg == SelectedModel(selected_label)
                prompt == build_prompt(proj, chapter_instruction)
                g == generate_chapter(prompt, cfg, env)
            IN  /\ project' = proj
                /\ calls' = calls + 1
                /\ IF g.raised
                   THEN /\ page' = RenderedPage("gen", 0, selected_project, proj, new_chapter)
                        /\ last' = Did("generate", -1, "exception", <<prompt>>)
                        /\ UNCHANGED <<new_chapter, previewOrigin>>
                   ELSE /\ new_chapter' = <<NewChapter(chapter_instruction, g.value)>>
                        /\ previewOrigin' = selected_project
                        /\ page' = RenderedPage("end", 0, selected_project, proj, new_chapter')
                        /\ last' = Did("generate", -1, "preview", <<prompt>>)

\* "Ulozit kapitolu do projektu" (lines 302-310), at the top level as well
ClickCommit ==
    /\ page.commit
    /\ UNCHANGED <<selected_project, calls, client>>
    /\ IF new_chapter = <<>>
       THEN FullRun("commit", -1, "ignored", selected_project)
       ELSE IF selected_project = NEW_PROJECT
       THEN /\ project' = Undefined
            /\ page' = RenderedPage("commit", 0, selected_project, Undefined, new_chapter)
            /\ last' = Did("commit", -1, "NameError", NoPrompt)
            /\ UNCHANGED <<disk, new_chapter, hist, previewOrigin>>
       ELSE LET proj == load_project(selected_project)
                proj2 == CommitChapter(proj, new_chapter[1])
            IN  /\ TotalChapters < MaxChapters
                /\ disk' = save_project(selected_project, proj2)
                /\ project' = proj2
                /\ new_chapter' = <<>>
                /\ previewOrigin' = ""
                /\ hist' = [hist EXCEPT ![selected_project] =
                              Append(@, [origin |-> "generate", regens |-> 0])]
                /\ page' = RenderedPage("commit", 0, selected_project, proj, new_chapter)
                /\ last' = Did("commit", -1, "ok", NoPrompt)

\* the runs a session can make when the projects it creates are among `names`
NextOver(names) ==
    \/ \E s \in {NEW_PROJECT} \cup names : SelectProject(s)
    \/ \E n \in names \cup {""}, t \in Times : ClickCreate(n, t)
    \/ \E j \in 0..MaxChars : ClickRemoveCharacter(j)
    \/ \E n \in CharNames, d \in CharDescs : ClickAddCharacter(n, d)
    \/ \E i \in 0..MaxChapters : ClickDelete(i)
    \/ \E i \in 0..MaxChapters, in \in GenInputs : ClickRegenerate(i, in[1], in[2])
    \/ \E i \in 0..MaxChapters : ClickDuplicate(i)
    \/ \E ci \in Instructions, in \in GenInputs : ClickGenerate(ci, in[1], in[2])
    \/ ClickCommit

Next == NextOver(ProjectNames)

Spec == Init /\ [][Next]_vars

\* a session that works on the one project "A"
NextSingle == NextOver({"A"})

SpecSingle == Init /\ [][NextSingle]_vars

-----------------------------------------------------------------------------
(* One text-generation call: generate_chapter applied to every model        *)
(* configuration, secret store and provider answer.                         *)

ClientPrompts ==
    {build_prompt(json_load(d), ci) : d \in {EmptyDoc("now"), LegacyDoc},
                                      ci \in {"i1", "i2"}}

InitClient ==
    /\ disk = [n \in ProjectNames |-> NoDoc]
    /\ hist = [n \in ProjectNames |-> <<>>]
    /\ InitSession
    /\ client \in [phase : {"call"}, cfg : {MODELS[k] : k \in 1..Len(MODELS)},
                   env : Envs, prompt : ClientPrompts, ret : {Returned("", FALSE)}]

ClientCall ==
    /\ client.phase = "call"
    /\ client' = [client EXCEPT
                    !.phase = "returned",
                    !.ret = generate_chapter(client.prompt, client.cfg, client.env)]
    /\ UNCHANGED <<disk, selected_project, project, new_chapter, page, last,
                   hist, previewOrigin, calls>>

NextClient == ClientCall

SpecClient == InitClient /\ [][NextClient]_vars

-----------------------------------------------------------------------------
(* Properties *)

IsPrefix(a, b) == Len(a) <= Len(b) /\ \A j \in 1..Len(a) : a[j] = b[j]

\* the step is a run of command c in which its handler acted and saved
Handled(c) == last'.cmd = c /\ last'.result = "ok"

OutOfRange(i, s) == ~(i >= 0 /\ i < Len(s))

\* s2 is s with exactly the element at 0-based index i removed
RemovedAt(s, s2, i) ==
    /\ Len(s2) = Len(s) - 1
    /\ \A j \in 1..Len(s2) : s2[j] = IF j <= i THEN s[j] ELSE s[j + 1]

\* C1: a chapter that was generated and committed and then regenerated N
\* times has N + 1 versions, and its text is the last of them.
C1_VersionHistory ==
    \A n \in ProjectNames : \A k \in 1..Len(disk[n].chapters) :
        hist[n][k].origin = "generate" =>
            LET ch == disk[n].chapters[k]
            IN  /\ ch.hasVersions
                /\ Len(ch.versions) = hist[n][k].regens + 1
                /\ ch.text = ch.versions[Len(ch.versions)]

C1_Witness ==
    \E n \in ProjectNames : \E k \in 1..Len(disk[n].chapters) :
        /\ hist[n][k].origin = "generate"
        /\ hist[n][k].regens >= 1
        /\ Len(disk[n].chapters[k].versions) >= 2

\* C2: a regenerate changes the chapter it is applied to and no other: every
\* other chapter of the project, the chapter it was duplicated from and its
\* duplicates among them, keeps its instruction, text and versions, as stored
\* and in memory.
C2_DuplicateIndependence ==
    [][Handled("regenerate") =>
         \A k \in 1..Len(disk[selected_project].chapters) :
            k # last'.index + 1 =>
               /\ disk'[selected_project].chapters[k] = disk[selected_project].chapters[k]
               /\ MemVersions(project', k) = Versions(disk[selected_project].chapters[k])
               /\ project'.chapters[k].text = disk[selected_project].chapters[k].text]_vars

\* a duplicate has just been regenerated next to a chapter with the same
\* instruction whose history now differs from its own
C2_Witness ==
    /\ last.cmd = "regenerate" /\ last.result = "ok"
    /\ selected_project # NEW_PROJECT
    /\ hist[selected_project][last.index + 1].origin = "duplicate"
    /\ \E k \in 1..Len(disk[selected_project].chapters) :
          /\ k # last.index + 1
          /\ disk[selected_project].chapters[k].instruction =
                disk[selected_project].chapters[last.index + 1].instruction
          /\ Versions(disk[selected_project].chapters[k]) #
                Versions(disk[selected_project].chapters[last.index + 1])

C4_CreateKeepsExisting ==
    [][last'.cmd = "create" =>
         /\ \A n \in ProjectNames : disk[n].exists => disk'[n] = disk[n]
         /\ last'.result \in {"ok", "noop", "AlreadyExists"}]_vars

\* C5: generate leaves the stored projects and the project's chapters as they
\* are and only sets the preview (instruction, text, versions = [text]);
\* commit appends exactly the previewed chapter to the end of the project's
\* chapters, stores the project and clears the preview.
C5_PreviewThenCommit ==
    [][/\ last'.cmd = "generate" =>
            /\ disk' = disk
            /\ last'.result = "preview" =>
                  /\ project' = json_load(disk[selected_project])
                  /\ Len(new_chapter') = 1
                  /\ new_chapter'[1].versions = <<new_chapter'[1].text>>
                  /\ new_chapter'[1].instruction \in Instructions
            /\ last'.result # "preview" => new_chapter' = new_chapter
       /\ Handled("commit") =>
            LET ch == new_chapter[1]
                stored == [instruction |-> ch.instruction, text |-> ch.text,
                           hasVersions |-> TRUE, versions |-> ch.versions]
            IN  /\ disk' = [disk EXCEPT ![selected_project].chapters = Append(@, stored)]
                /\ json_dump(project') = disk'[selected_project]
                /\ new_chapter' = <<>>]_vars

\* a preview was committed behind an older chapter
C5_Witness ==
    /\ last.cmd = "commit" /\ last.result = "ok"
    /\ new_chapter = <<>>
    /\ LET chs == disk[selected_project].chapters
       IN  /\ Len(chs) >= 2
           /\ chs[Len(chs)].versions = <<chs[Len(chs)].text>>
           /\ chs[1] # chs[Len(chs)]

\* C6: with either provider, a generation call returns to its caller; when
\* the provider's answer is not a success, what it returns is a failure text.
C6_FailuresAreReturned ==
    (client.phase = "returned" /\ client.cfg.provider \in {"openai", "ollama"}) =>
        /\ ~client.ret.raised
        /\ client.env.response.kind # "ok" => client.ret.value \in FailureTexts

\* C7 as the code has it: with the openai provider, a credential reference
\* that resolves to no secret yields the missing-credential text and no
\* request is sent.
C7_OpenAIMissingCredential ==
    (/\ client.phase = "returned"
     /\ client.cfg.provider = "openai"
     /\ client.cfg.api_key_env \notin client.env.secrets)
        => client.ret = Returned(ERR_KEY, FALSE)

C7_Witness ==
    /\ client.phase = "returned"
    /\ client.cfg.provider = "openai"
    /\ client.cfg.api_key_env \notin client.env.secrets
    /\ client.env.response.kind = "ok"
    /\ client.ret.value = ERR_KEY

\* C7 as claimed: for whichever configuration is selected, a credential
\* reference that resolves to no secret yields the missing-credential
\* failure and no request is sent.
C7_AnyProviderMissingCredential ==
    (/\ client.phase = "returned"
     /\ client.cfg.api_key_env \notin client.env.secrets)
        => client.ret = Returned(ERR_KEY, FALSE)

\* C8: regenerate keeps the chapter's instruction and extends its versions
\* by exactly one entry; no command other than deleting a chapter removes a
\* chapter's entries or alters them.
C8_AppendOnly ==
    [][/\ Handled("regenerate") =>
            LET old == disk[selected_project].chapters[last'.index + 1]
                new == disk'[selected_project].chapters[last'.index + 1]
            IN  /\ new.instruction = old.instruction
                /\ IsPrefix(Versions(old), Versions(new))
                /\ Len(Versions(new)) = Len(Versions(old)) + 1
       /\ last'.cmd # "delete" =>
            \A n \in ProjectNames : \A k \in 1..Len(disk[n].chapters) :
                /\ Len(disk'[n].chapters) >= k
                /\ IsPrefix(Versions(disk[n].chapters[k]),
                            Versions(disk'[n].chapters[k]))]_vars

\* C9: the chapter history of a prompt is the texts of the chapters before the
\* one being written: all stored chapters for generate, the chapters at
\* positions before i for regenerate at i.
C9_PriorChaptersOnly ==
    [][(last'.cmd \in {"generate", "regenerate"} /\ last'.prompt # <<>>) =>
         LET chs == disk[selected_project].chapters
             n == IF last'.cmd = "generate" THEN Len(chs) ELSE last'.index
         IN  last'.prompt[1].previous_chapters = [k \in 1..n |-> <<k, chs[k].text>>]]_vars

\* C10: a preview is committed only to the project that was selected when it
\* was generated, and a generate or commit takes effect (a prompt is built, a
\* chapter is stored) only while a stored project is selected.
C10_CommitToOrigin ==
    [][/\ Handled("commit") => selected_project = previewOrigin
       /\ (last'.cmd \in {"generate", "commit"}
              /\ last'.result \in {"ok", "preview", "exception"}) =>
             selected_project # NEW_PROJECT]_vars

====
